---- MODULE Spec2Model ----
(***************************************************************************)
(* A model of main.cpp: a one-sphere ray tracer that renders a fixed scene *)
(* into a framebuffer and serialises it as an uncompressed 24-bit BMP.     *)
(*                                                                         *)
(* Numbers.  A C++ double is modelled as a fixed-point integer counting    *)
(* units of 1/Scale, so 1.0 is Scale, 0.1 is Scale/10.  Every constant of  *)
(* the program (0.1, 0.5, 1.5, 2.0, 255.999) is exact in this grid.  Each  *)
(* arithmetic operation of the source is one operator below and rounds its *)
(* result to the grid, as each double operation rounds to 53 bits.  The    *)
(* three IEEE special values the program can produce (NaN, +inf, -inf)     *)
(* are sentinels outside the finite range, with IEEE propagation rules.    *)
(* Signed zeros are not distinguished.                                     *)
(***************************************************************************)
EXTENDS Integers, Naturals, Sequences, FiniteSets, TLC

Scale == 1000

PInf == 2000000000
NInf == -2000000000
NaN == 2000000001

IsInf(a) == a = PInf \/ a = NInf
IsFinite(a) == NInf < a /\ a < PInf
Abs(n) == IF n < 0 THEN 0 - n ELSE n
Sgn(n) == IF n < 0 THEN 0 - 1 ELSE 1
InfOf(s) == IF s < 0 THEN NInf ELSE PInf

\* n / d for integers, d # 0, rounded to the nearest integer.
Round(n, d) ==
  IF (n < 0) = (d < 0) THEN (2 * Abs(n) + Abs(d)) \div (2 * Abs(d))
  ELSE 0 - ((2 * Abs(n) + Abs(d)) \div (2 * Abs(d)))

\* n / d for integers, d > 0, truncated toward zero (a C++ float-to-int cast).
Trunc(n, d) == Sgn(n) * (Abs(n) \div d)

RECURSIVE Newton(_, _)
Newton(n, x) ==
  LET y == (x + n \div x) \div 2
  IN IF y >= x THEN x ELSE Newton(n, y)

\* floor(sqrt(n)) for n >= 0.
ISqrt(n) == IF n < 2 THEN n ELSE Newton(n, IF n > 4000000 THEN 46340 ELSE 2000)

\* sqrt(n) rounded to the nearest integer.
ISqrtNearest(n) == LET r == ISqrt(n) IN IF n - r * r > r THEN r + 1 ELSE r

\* ---- double arithmetic ----
Neg(a) == IF a = NaN THEN NaN ELSE 0 - a

Add(a, b) ==
  IF IsFinite(a) /\ IsFinite(b) THEN a + b
  ELSE IF a = NaN \/ b = NaN THEN NaN
  ELSE IF IsInf(a) THEN (IF IsInf(b) /\ b # a THEN NaN ELSE a)
  ELSE b

Sub(a, b) == Add(a, Neg(b))

Mul(a, b) ==
  IF IsFinite(a) /\ IsFinite(b) THEN Round(a * b, Scale)
  ELSE IF a = NaN \/ b = NaN THEN NaN
  ELSE IF a = 0 \/ b = 0 THEN NaN
  ELSE InfOf(Sgn(a) * Sgn(b))

Div(a, b) ==
  IF IsFinite(a) /\ IsFinite(b) /\ b # 0 THEN Round(a * Scale, b)
  ELSE IF a = NaN \/ b = NaN THEN NaN
  ELSE IF IsInf(a) THEN (IF IsInf(b) THEN NaN ELSE InfOf(Sgn(a) * Sgn(b)))
  ELSE IF IsInf(b) THEN 0
  ELSE IF a = 0 THEN NaN
  ELSE InfOf(Sgn(a))

\* std::sqrt
Sqrt(a) ==
  IF a = NaN \/ a < 0 THEN NaN
  ELSE IF a = PInf THEN PInf
  ELSE ISqrtNearest(a * Scale)

\* a < b and a > b on doubles: false when either side is NaN.
Lt(a, b) == a # NaN /\ b # NaN /\ a < b
Gt(a, b) == Lt(b, a)

\* std::max(a, b) is (a < b) ? b : a
StdMax(a, b) == IF Lt(a, b) THEN b ELSE a

\* (double)n for an int n
ToDouble(n) == n * Scale

\* ---- struct Vector3 ----
Vector3(x, y, z) == [x |-> x, y |-> y, z |-> z]
plus(u, v) == Vector3(Add(u.x, v.x), Add(u.y, v.y), Add(u.z, v.z))
minus(u, v) == Vector3(Sub(u.x, v.x), Sub(u.y, v.y), Sub(u.z, v.z))
times(u, t) == Vector3(Mul(u.x, t), Mul(u.y, t), Mul(u.z, t))
dot(u, v) == Add(Add(Mul(u.x, v.x), Mul(u.y, v.y)), Mul(u.z, v.z))
len(u) == Sqrt(Add(Add(Mul(u.x, u.x), Mul(u.y, u.y)), Mul(u.z, u.z)))
normalize(u) == LET l == len(u) IN Vector3(Div(u.x, l), Div(u.y, l), Div(u.z, l))

\* ---- struct Ray, Light, Sphere ----
Ray(origin, direction) == [origin |-> origin, direction |-> normalize(direction)]
Light(pos, intensity) == [pos |-> pos, intensity |-> intensity]
Sphere(center, radius, color, albedo) ==
  [center |-> center, radius |-> radius, color |-> color, albedo |-> albedo]

\* b * b - 4 * a * c of a quadratic.
discriminant(a, b, c) == Sub(Mul(b, b), Mul(Mul(4 * Scale, a), c))

\* intersect as it would be if it fell back to the larger root when the
\* smaller one is not positive.
intersect_either_root(sph, ray) ==
  LET oc == minus(ray.origin, sph.center)
      a == dot(ray.direction, ray.direction)
      b == Mul(2 * Scale, dot(oc, ray.direction))
      c == Sub(dot(oc, oc), Mul(sph.radius, sph.radius))
      delta == discriminant(a, b, c)
      t1 == Div(Sub(Neg(b), Sqrt(delta)), Mul(2 * Scale, a))
      t2 == Div(Add(Neg(b), Sqrt(delta)), Mul(2 * Scale, a))
      t == IF Gt(t1, 0) THEN t1 ELSE t2
  IN IF Lt(delta, 0) THEN [hit |-> FALSE]
     ELSE [hit |-> Gt(t, 0), t |-> t]

\* Sphere::intersect.  The result carries the out-parameter t only on the
\* path that assigns it: with delta < 0 the caller's t keeps whatever it held.
intersect(sph, ray) ==
  LET oc == minus(ray.origin, sph.center)
      a == dot(ray.direction, ray.direction)
      b == Mul(2 * Scale, dot(oc, ray.direction))
      c == Sub(dot(oc, oc), Mul(sph.radius, sph.radius))
      delta == discriminant(a, b, c)
      t1 == Div(Sub(Neg(b), Sqrt(delta)), Mul(2 * Scale, a))
      t2 == Div(Add(Neg(b), Sqrt(delta)), Mul(2 * Scale, a))
      t == IF Lt(t1, t2) THEN t1 ELSE t2
  IN IF Lt(delta, 0) THEN [hit |-> FALSE]
     ELSE [hit |-> Gt(t, 0), t |-> t]

Background == Vector3(Scale \div 10, Scale \div 10, Scale \div 10)

\* The body of trace: whether the ray hit, the vectors the call passed to
\* normalize(), and the colour it returns.  The local t is uninitialised
\* until intersect assigns it, and is read only on a hit.
trace_body(ray, sph, lgt) ==
  LET r == intersect(sph, ray)
      intersection_point == plus(ray.origin, times(ray.direction, r.t))
      normal_arg == minus(intersection_point, sph.center)
      light_arg == minus(lgt.pos, intersection_point)
      normal == normalize(normal_arg)
      light_dir == normalize(light_arg)
      distance == len(light_arg)
      cosine == StdMax(0, dot(normal, light_dir))
      L == Div(lgt.intensity, Mul(distance, distance))
  IN IF r.hit
     THEN [hit |-> TRUE, normalized |-> {normal_arg, light_arg},
           color |-> times(sph.color, Mul(Mul(sph.albedo, L), cosine))]
     ELSE [hit |-> FALSE, normalized |-> {}, color |-> Background]

\* trace as it would be if a miss returned a tenth of the sphere's colour.
trace_tinted(ray, sph, lgt) ==
  IF trace_body(ray, sph, lgt).hit THEN trace_body(ray, sph, lgt).color
  ELSE times(sph.color, Scale \div 10)

trace(ray, sph, lgt) == trace_body(ray, sph, lgt).color

\* ---- main: the scene and the viewport ----
width == 800
height == 600

\* The sphere as it would be with the sign of its centre's z lost.
sphere_behind == Sphere(Vector3(0, 0, Scale), Scale \div 2, Vector3(Scale, 0, 0), Scale)

sphere == Sphere(Vector3(0, 0, 0 - Scale), Scale \div 2, Vector3(Scale, 0, 0), Scale)
light == Light(Vector3(Scale, Scale, 0), (3 * Scale) \div 2)
camera == Vector3(0, 0, 0)

viewport_height == 2 * Scale
viewport_width(w, h) == Mul(Div(ToDouble(w), ToDouble(h)), viewport_height)
focal_length == Scale

horizontal(w, h) == Vector3(viewport_width(w, h), 0, 0)
vertical == Vector3(0, viewport_height, 0)
lower_left_corner(w, h) ==
  minus(minus(minus(camera, times(horizontal(w, h), Scale \div 2)),
              times(vertical, Scale \div 2)),
        Vector3(0, 0, focal_length))

\* u and v of the loop body for pixel (i, j) of a w x h image.
u_of(i, w) == Div(ToDouble(i), ToDouble(w - 1))

\* v as it would be if measured from the top edge.
v_of_flipped(j, h) == Sub(Scale, Div(ToDouble(j), ToDouble(h - 1)))
v_of(j, h) == Div(ToDouble(j), ToDouble(h - 1))

\* The direction as it would be with lower_left_corner subtracted in place of
\* camera.
ray_direction_from_corner(i, j, w, h) ==
  minus(plus(plus(lower_left_corner(w, h), times(horizontal(w, h), u_of(i, w))),
             times(vertical, v_of(j, h))),
        lower_left_corner(w, h))

\* The direction main passes to Ray() for pixel (i, j).
ray_direction(i, j, w, h) ==
  minus(plus(plus(lower_left_corner(w, h), times(horizontal(w, h), u_of(i, w))),
             times(vertical, v_of(j, h))),
        camera)

\* ---- writeBMP: headers and byte conversion ----
RECURSIVE LittleEndian(_, _)
\* The k bytes of the unsigned integer n as they lie in memory.
LittleEndian(n, k) ==
  IF k = 0 THEN <<>> ELSE <<n % 256>> \o LittleEndian(n \div 256, k - 1)

sizeof_BMPHeader == 2 + 4 + 2 + 2 + 4
sizeof_BMPInfoHeader == 4 + 4 + 4 + 2 + 2 + 4 + 4 + 4 + 4 + 4 + 4

\* fileSize as it would be without the info header's size.
fileSize_without_info(w, h) == sizeof_BMPHeader + w * h * 3

fileSize(w, h) == sizeof_BMPHeader + sizeof_BMPInfoHeader + w * h * 3

\* struct BMPHeader after line 105, as write() copies it (packed, no padding).
BMPHeader(w, h) ==
  LittleEndian(19778, 2) \o LittleEndian(fileSize(w, h), 4) \o LittleEndian(0, 2)
    \o LittleEndian(0, 2) \o LittleEndian(54, 4)

\* struct BMPInfoHeader after lines 106-107, as write() copies it.
BMPInfoHeader(w, h) ==
  LittleEndian(40, 4) \o LittleEndian(w, 4) \o LittleEndian(h, 4)
    \o LittleEndian(1, 2) \o LittleEndian(24, 2) \o LittleEndian(0, 4)
    \o LittleEndian(0, 4) \o LittleEndian(0, 4) \o LittleEndian(0, 4)
    \o LittleEndian(0, 4) \o LittleEndian(0, 4)

\* The double-to-uint8_t conversion is undefined when the truncated value is
\* outside 0..255; what a build then stores depends on the conversion
\* instruction it uses.  "cvttsd2si" (x86-64) converts to a signed 32-bit
\* integer and keeps the low byte; "fcvtzu" (AArch64) converts to an unsigned
\* 32-bit integer with saturation and keeps the low byte.
Builds == {"cvttsd2si", "fcvtzu"}

\* 255.999 in the fixed-point grid.
ByteFactor == (255999 * Scale) \div 1000

\* The conversion as it would be if it clamped to 0..255.
ToByte_clamped(c, b) ==
  IF c = NaN \/ c = NInf THEN 0
  ELSE IF c = PInf THEN 255
  ELSE LET n == Trunc(ByteFactor * c, Scale * Scale)
       IN IF n < 0 THEN 0 ELSE IF n > 255 THEN 255 ELSE n

\* static_cast<uint8_t>(255.999 * c) on build b.  The product is kept exact
\* (units of 1/Scale^2) before the cast truncates it toward zero.
ToByte(c, b) ==
  IF c = NaN \/ c = NInf THEN 0
  ELSE IF c = PInf THEN (IF b = "fcvtzu" THEN 255 ELSE 0)
  ELSE LET n == Trunc(ByteFactor * c, Scale * Scale)
       IN IF n < 0 /\ b = "fcvtzu" THEN 0 ELSE n % 256

\* The triplet as it would be in red, green, blue order.
triplet_rgb(pixel, b) == <<ToByte(pixel.x, b), ToByte(pixel.y, b), ToByte(pixel.z, b)>>

\* The three bytes one loop iteration writes, in the order it writes them.
triplet(pixel, b) == <<ToByte(pixel.z, b), ToByte(pixel.y, b), ToByte(pixel.x, b)>>

\* The store index as it would be with i and j exchanged.
store_index_transposed(i, j, w) == i * w + j

\* framebuffer[j * width + i] as main stores to it (line 151) and as writeBMP
\* reads it (line 115).
store_index(i, j, w) == j * w + i
load_index(i, j, w) == j * w + i

\* writeBMP's outer loop: for (int j = height - 1; j >= 0; --j)
first_row(h) == h - 1
next_row(j) == j - 1

\* std::ofstream::write on a stream whose open succeeded (ok) or failed.
stream_write(f, ok, bytes) == IF ok THEN f \o bytes ELSE f

\* main's return as it would be if it reported a failed stream.
main_return_checked(failed) == IF failed THEN 1 ELSE 0

\* main's return statement; failed tells whether the stream ever failed.
main_return(failed) == 0

\* ---- bounds of the model ----
\* The program's image is width x height = 800 x 600; the state machine runs
\* main on images of 2..MaxWidth by 2..MaxHeight pixels, and writeBMP alone on
\* every 1..EncWidth by 1..EncHeight framebuffer over Palette and on every
\* uniform framebuffer with component in -Under .. Scale + Over.
MaxWidth == 5
MaxHeight == 4
EncWidth == 3
EncHeight == 2
Under == 300
Over == 1400

Palette == {Vector3(Scale \div 10, Scale \div 2, Scale),
            Vector3(0, Scale \div 4, (3 * Scale) \div 4)}
Greys == {Vector3(c, c, c) : c \in (0 - Under)..(Scale + Over)}

VARIABLES
  pc,           \* control point of main / writeBMP
  build,        \* how this build converts out-of-range doubles to uint8_t
  w, h,         \* image width and height
  framebuffer,  \* std::vector<Vector3>, index 0 .. w*h-1
  i, j,         \* loop counters of the loop in progress
  file,         \* bytes of output.bmp written by this run
  opened,       \* whether std::ofstream's open succeeded
  wcalls,       \* number of outFile.write calls made
  status,       \* <<exit status of main>>, empty until main returns
  cerr,         \* diagnostics written by the program
  writes,       \* history: framebuffer indices main has stored to, in order
  reads,        \* history: framebuffer indices writeBMP has read, in order
  vrow,         \* history: the v used for the ray stored at each index
  px            \* the call in progress in the single-call specifications

vars == <<pc, build, w, h, framebuffer, i, j, file, opened, wcalls, status, cerr,
          writes, reads, vrow, px>>

progvars == <<pc, build, w, h, framebuffer, i, j, file, opened, wcalls, status, cerr,
              writes, reads, vrow>>

NoCall == [stage |-> "none"]

\* ---- main ----
\* State at line 146: framebuffer value-initialised, scene constructed.
Init ==
  /\ pc = "render"
  /\ build \in Builds
  /\ w \in 2..MaxWidth
  /\ h \in 2..MaxHeight
  /\ framebuffer = [k \in 0..(w * h - 1) |-> Vector3(0, 0, 0)]
  /\ i = 0 /\ j = 0
  /\ file = <<>> /\ opened = FALSE /\ wcalls = 0
  /\ status = <<>> /\ cerr = <<>>
  /\ writes = <<>> /\ reads = <<>>
  /\ vrow = [k \in 0..(w * h - 1) |-> NaN]
  /\ px = NoCall

\* One iteration of main's inner loop, lines 148-151.
Render ==
  /\ pc = "render" /\ j < h
  /\ \E color \in {trace(Ray(camera, ray_direction(i, j, w, h)), sphere, light)} :
       framebuffer' = [framebuffer EXCEPT ![store_index(i, j, w)] = color]
  /\ writes' = Append(writes, store_index(i, j, w))
  /\ vrow' = [vrow EXCEPT ![store_index(i, j, w)] = v_of(j, h)]
  /\ IF i + 1 < w THEN i' = i + 1 /\ j' = j ELSE i' = 0 /\ j' = j + 1
  /\ UNCHANGED <<pc, build, w, h, file, opened, wcalls, status, cerr, reads, px>>

\* Line 154: the loops are over and main calls writeBMP.
CallWriteBMP ==
  /\ pc = "render" /\ j >= h
  /\ pc' = "open"
  /\ UNCHANGED <<build, w, h, framebuffer, i, j, file, opened, wcalls, status, cerr,
                 writes, reads, vrow, px>>

\* ---- writeBMP ----
\* Line 109: the stream is constructed; the open succeeds or fails and
\* nothing looks at which.
Open ==
  /\ pc = "open"
  /\ opened' \in BOOLEAN
  /\ file' = <<>>
  /\ pc' = "header"
  /\ UNCHANGED <<build, w, h, framebuffer, i, j, wcalls, status, cerr, writes, reads,
                 vrow, px>>

\* Line 110.
WriteHeader ==
  /\ pc = "header"
  /\ file' = stream_write(file, opened, BMPHeader(w, h))
  /\ wcalls' = wcalls + 1
  /\ pc' = "info"
  /\ UNCHANGED <<build, w, h, framebuffer, i, j, opened, status, cerr, writes, reads,
                 vrow, px>>

\* Line 111, and the loop initialisation of line 113.
WriteInfoHeader ==
  /\ pc = "info"
  /\ file' = stream_write(file, opened, BMPInfoHeader(w, h))
  /\ wcalls' = wcalls + 1
  /\ j' = first_row(h) /\ i' = 0
  /\ pc' = "pixels"
  /\ UNCHANGED <<build, w, h, framebuffer, opened, status, cerr, writes, reads, vrow, px>>

\* One iteration of writeBMP's inner loop, lines 115-121.
WritePixel ==
  /\ pc = "pixels" /\ j >= 0 /\ i < w
  /\ file' = stream_write(file, opened, triplet(framebuffer[load_index(i, j, w)], build))
  /\ wcalls' = wcalls + 3
  /\ reads' = Append(reads, load_index(i, j, w))
  /\ IF i + 1 < w THEN i' = i + 1 /\ j' = j ELSE i' = 0 /\ j' = next_row(j)
  /\ UNCHANGED <<pc, build, w, h, framebuffer, opened, status, cerr, writes, vrow, px>>

\* Line 125, and the return to the caller.
Close ==
  /\ pc = "pixels" /\ ~(j >= 0 /\ i < w)
  /\ pc' = "return"
  /\ UNCHANGED <<build, w, h, framebuffer, i, j, file, opened, wcalls, status, cerr,
                 writes, reads, vrow, px>>

\* Line 155.
Return ==
  /\ pc = "return"
  /\ status' = <<main_return(~opened)>>
  /\ pc' = "done"
  /\ UNCHANGED <<build, w, h, framebuffer, i, j, file, opened, wcalls, cerr, writes,
                 reads, vrow, px>>

Next == Render \/ CallWriteBMP \/ Open \/ WriteHeader \/ WriteInfoHeader \/ WritePixel
          \/ Close \/ Return

Spec == Init /\ [][Next]_vars

\* ---- writeBMP called on an arbitrary framebuffer ----
InitEnc ==
  /\ pc = "open"
  /\ build \in Builds
  /\ w \in 1..EncWidth
  /\ h \in 1..EncHeight
  /\ \/ framebuffer \in [0..(w * h - 1) -> Palette]
     \/ \E g \in Greys : framebuffer = [k \in 0..(w * h - 1) |-> g]
  /\ i = 0 /\ j = 0
  /\ file = <<>> /\ opened = FALSE /\ wcalls = 0
  /\ status = <<>> /\ cerr = <<>>
  /\ writes = <<>> /\ reads = <<>>
  /\ vrow = [k \in 0..(w * h - 1) |-> NaN]
  /\ px = NoCall

NextEnc == Open \/ WriteHeader \/ WriteInfoHeader \/ WritePixel \/ Close

SpecEnc == InitEnc /\ [][NextEnc]_vars

\* ---- one pixel of the default scene at 800 x 600 ----
Idle ==
  /\ pc = "idle" /\ build = "none" /\ w = 0 /\ h = 0 /\ framebuffer = <<>>
  /\ i = 0 /\ j = 0 /\ file = <<>> /\ opened = FALSE /\ wcalls = 0
  /\ status = <<>> /\ cerr = <<>> /\ writes = <<>> /\ reads = <<>> /\ vrow = <<>>

InitScene ==
  /\ Idle
  /\ px \in [stage : {"pixel"}, i : 0..(width - 1), j : 0..(height - 1)]

\* main's loop body for pixel (px.i, px.j), lines 148-151, keeping the vectors
\* that reach normalize().
RenderPixel ==
  /\ px.stage = "pixel"
  /\ \E raw \in {ray_direction(px.i, px.j, width, height)} :
     \E tr \in {trace_body(Ray(camera, raw), sphere, light)} :
       px' = [stage |-> "stored", i |-> px.i, j |-> px.j, raw |-> raw, hit |-> tr.hit,
              normalized |-> {raw} \cup tr.normalized, color |-> tr.color]
  /\ UNCHANGED progvars

\* writeBMP's loop body for that pixel, lines 115-121.
EncodePixel ==
  /\ px.stage = "stored"
  /\ \E b \in Builds :
       px' = [px EXCEPT !.stage = "encoded"] @@ [bgr |-> triplet(px.color, b)]
  /\ UNCHANGED progvars

NextScene == RenderPixel \/ EncodePixel

SpecScene == InitScene /\ [][NextScene]_vars

\* ---- Sphere::intersect and trace called on their own ----
\* Whole multiples of Scale/10, so that sums and products of the inputs are exact.
V(x, y, z) == Vector3(x * (Scale \div 10), y * (Scale \div 10), z * (Scale \div 10))

Origins == {V(0, 0, 0), V(0, 0, -10), V(0, 0, -5), V(5, 0, 0)}
Directions == {V(0, 0, -10), V(0, 0, 10), V(0, 0, -20), V(30, 0, -40), V(10, 0, 0),
               V(0, -30, -40)}
Centers == {V(0, 0, -10), V(0, 0, -20), V(10, 0, -10)}
Radii == {Scale \div 2, Scale, (3 * Scale) \div 2}
Lights == {light, Light(V(0, 20, -10), 3 * Scale)}
Colors == {V(10, 0, 0), V(2, 5, 10)}
Albedos == {Scale, Scale \div 2}

InitCall ==
  /\ Idle
  /\ px \in [stage : {"args"}, origin : Origins, direction : Directions,
             center : Centers, radius : Radii, light : Lights, color : Colors,
             albedo : Albedos]

CallSphere(c) == Sphere(c.center, c.radius, c.color, c.albedo)
CallRay(c) == Ray(c.origin, c.direction)

\* bool hit = sphere.intersect(ray, t)
CallIntersect ==
  /\ px.stage = "args"
  /\ \E r \in {intersect(CallSphere(px), CallRay(px))} :
       px' = [px EXCEPT !.stage = "intersected"] @@ [out |-> r]
  /\ UNCHANGED progvars

\* Vector3 result = trace(ray, sphere, light).
CallTrace ==
  /\ px.stage = "args"
  /\ px' = [px EXCEPT !.stage = "traced"]
             @@ [result |-> trace(CallRay(px), CallSphere(px), px.light)]
  /\ UNCHANGED progvars

NextCall == CallIntersect \/ CallTrace

SpecCall == InitCall /\ [][NextCall]_vars

\* ======================= properties =======================
RECURSIVE Decode(_)
\* The unsigned integer a little-endian byte sequence spells.
Decode(bytes) == IF bytes = <<>> THEN 0 ELSE Head(bytes) + 256 * Decode(Tail(bytes))

\* The n-byte field at byte offset off of the file.
Field(off, n) == Decode(SubSeq(file, off + 1, off + n))

\* The k-th pixel triplet after the headers, k = 0, 1, ...
FileTriplet(k) == SubSeq(file, 54 + 3 * k + 1, 54 + 3 * k + 3)

AllIndices == 0..(w * h - 1)
Encoding == pc \in {"pixels", "return", "done"}

\* C1: the k-th triplet writeBMP writes after the headers is the (B, G, R)
\* bytes of framebuffer[(H-1 - k div W) * W + (k mod W)]: rows go out bottom
\* to top, the last in-memory row first, and when the loop is over every
\* framebuffer index has been read exactly once.
C1_BottomUpBGR ==
  Encoding =>
    /\ \A k \in 0..(Len(reads) - 1) :
         LET src == (h - 1 - (k \div w)) * w + (k % w)
             pixel == framebuffer[src]
         IN /\ reads[k + 1] = src
            /\ opened => FileTriplet(k) = <<ToByte(pixel.z, build), ToByte(pixel.y, build),
                                            ToByte(pixel.x, build)>>
    /\ reads # <<>> => reads[1] = (h - 1) * w
    /\ pc = "return" =>
         /\ Len(reads) = w * h
         /\ \A idx \in AllIndices : Cardinality({k \in 1..Len(reads) : reads[k] = idx}) = 1
         /\ opened => Len(file) = 54 + 3 * Len(reads)

\* C1 witness: a file fully written from a framebuffer of at least two rows and
\* two columns whose first and last rows differ.
C1_Witness ==
  /\ pc = "return" /\ opened /\ w >= 2 /\ h >= 2
  /\ framebuffer[0] # framebuffer[(h - 1) * w]
  /\ framebuffer[0] # framebuffer[1]
  /\ FileTriplet(0) = <<255, 127, 25>>

\* C2: writeBMP writes exactly 54 + W*H*3 bytes, a 14-byte file header, a
\* 40-byte info header and unpadded pixel rows, and the header fields are
\* magic 0x4D42, file size 54 + W*H*3, reserved 0 and 0, data offset 54,
\* info-header size 40, width W, height H, planes 1, bits per pixel 24.
C2_SizeAndHeader ==
  opened =>
    /\ pc = "info" => Len(file) = 14
    /\ pc = "pixels" => Len(file) = 54 + 3 * Len(reads)
    /\ pc = "return" => Len(file) = 54 + w * h * 3
    /\ pc \in {"info", "pixels", "return"} =>
         /\ SubSeq(file, 1, 2) = <<66, 77>>
         /\ Field(2, 4) = 54 + w * h * 3
         /\ Field(6, 2) = 0 /\ Field(8, 2) = 0
         /\ Field(10, 4) = 54
    /\ pc \in {"pixels", "return"} =>
         /\ Field(14, 4) = 40
         /\ Field(18, 4) = w /\ Field(22, 4) = h
         /\ Field(26, 2) = 1 /\ Field(28, 2) = 24

\* C2 witness: a complete file whose rows of W*3 bytes are not a multiple of
\* four bytes long.
C2_Witness == pc = "return" /\ opened /\ (w * 3) % 4 # 0 /\ h >= 2 /\ Len(file) > 54

\* What C7 says of the byte stored for component c; n is the product
\* 255.999 * c truncated toward zero.
ByteOK(c, byte) ==
  LET n == Trunc(255999 * c, 1000000)
  IN /\ byte \in 0..255
     /\ (0 <= c /\ c <= 1000) => byte = (255999 * c) \div 1000000
     /\ c = 1000 => byte = 255
     /\ c = 0 => byte = 0
     /\ n > 255 => byte = n % 256
     /\ n < 0 => byte = n % 256 \/ byte = 0

Unclamped ==
  /\ pc = "return" /\ opened
  /\ framebuffer[0].x > 1000
  /\ file[57] \notin {0, 255}

\* C5: main stores to every framebuffer index 0 .. width*height-1 exactly once
\* (none twice, none skipped, none out of range), all stores are done before
\* writeBMP reads any entry, and nothing stores after encoding starts.
C5_WriteOncePerPixel ==
  /\ \A k \in 1..Len(writes) : writes[k] \in AllIndices
  /\ \A k1, k2 \in 1..Len(writes) : writes[k1] = writes[k2] => k1 = k2
  /\ (pc # "render" \/ reads # <<>>) =>
       /\ Len(writes) = w * h
       /\ \A idx \in AllIndices : Cardinality({k \in 1..Len(writes) : writes[k] = idx}) = 1
  /\ \A k \in 1..Len(reads) : reads[k] \in AllIndices

\* C5 witness: a finished run on an image whose width and height differ, with
\* every entry stored and then read.
C5_Witness ==
  pc = "done" /\ w > h /\ h >= 2 /\ Len(writes) = w * h /\ Len(reads) = w * h

\* C8: a failed open goes unnoticed: writeBMP still makes every header and
\* pixel write call, no diagnostic is produced, and main returns exit status
\* 0, as after a successful run.
C8_SilentOpenFailure ==
  /\ cerr = <<>>
  /\ status \in {<<>>, <<0>>}
  /\ pc = "done" => status = <<0>>
  /\ pc \in {"return", "done"} => wcalls = 2 + 3 * w * h /\ Len(reads) = w * h
  /\ (~opened /\ pc \in {"header", "info", "pixels", "return", "done"}) => file = <<>>

\* C8 witness: the run is over and the open had failed.
C8_Witness == pc = "done" /\ ~opened /\ status = <<0>> /\ wcalls = 2 + 3 * w * h

\* C10: main stores the ray through viewport height v = j/(height-1) at
\* framebuffer row j (row 0: v = 0, row height-1: v = 1) and writeBMP writes
\* framebuffer row height-1 first, so the first pixel row of the file is the
\* viewport's top edge (v = 1) and the last one its bottom edge (v = 0).
C10_TopRowFirst ==
  /\ \A k \in 1..Len(writes) :
       LET row == writes[k] \div w
       IN /\ row = 0 => vrow[writes[k]] = 0
          /\ row = h - 1 => vrow[writes[k]] = 1000
          /\ (0 < row /\ row < h - 1) => (0 < vrow[writes[k]] /\ vrow[writes[k]] < 1000)
          /\ vrow[writes[k]] = ((2 * 1000 * row) + (h - 1)) \div (2 * (h - 1))
  /\ (Encoding /\ opened) =>
       /\ Len(file) = 54 + 3 * Len(reads)
       /\ \A k \in 0..(Len(reads) - 1) :
            LET filerow == k \div w
                v == vrow[reads[k + 1]]
            IN /\ filerow = 0 => v = 1000
               /\ filerow = h - 1 => v = 0
               /\ v = ((2 * 1000 * (h - 1 - filerow)) + (h - 1)) \div (2 * (h - 1))

\* C10 witness: a complete file of at least three pixel rows.
C10_Witness ==
  /\ pc = "done" /\ opened /\ h >= 3 /\ w >= 2
  /\ vrow[reads[1]] = 1000 /\ vrow[reads[w * h]] = 0

\* C6: at 800 x 600 the ray of pixel (400, 300) hits the sphere, so the colour
\* stored for it is not the background; the ray of pixel (10, 10) misses, so
\* its colour is the background (0.1, 0.1, 0.1), written as B = G = R = 25.
C6_DefaultScene ==
  /\ (px.stage \in {"stored", "encoded"} /\ px.i = 400 /\ px.j = 300) =>
       px.hit /\ px.color # Vector3(100, 100, 100)
  /\ (px.stage = "encoded" /\ px.i = 400 /\ px.j = 300) => px.bgr # <<25, 25, 25>>
  /\ (px.stage \in {"stored", "encoded"} /\ px.i = 10 /\ px.j = 10) =>
       ~px.hit /\ px.color = Vector3(100, 100, 100)
  /\ (px.stage = "encoded" /\ px.i = 10 /\ px.j = 10) => px.bgr = <<25, 25, 25>>

\* C6 witness: pixel (400, 300) rendered as a hit and encoded.
C6_Witness == px.stage = "encoded" /\ px.i = 400 /\ px.j = 300 /\ px.hit

\* C9: at 800 x 600 no pixel's ray direction is the zero vector (its z is
\* always -focal_length = -1), and on every hit neither p - center nor
\* light.pos - p, the vectors trace normalizes, is the zero vector.
C9_NoZeroNormalize ==
  px.stage \in {"stored", "encoded"} =>
    /\ px.raw.z = 0 - 1000
    /\ px.raw \in px.normalized
    /\ \A v \in px.normalized :
         /\ ~(v.x = 0 /\ v.y = 0 /\ v.z = 0)
         /\ NInf < v.x /\ v.x < PInf /\ NInf < v.y /\ v.y < PInf /\ NInf < v.z /\ v.z < PInf
    /\ px.hit => Cardinality(px.normalized) >= 2
    /\ ~px.hit => px.normalized = {px.raw}

\* C9 witness: a pixel whose ray hit, with three vectors normalized.
C9_Witness == px.stage = "stored" /\ px.hit /\ Cardinality(px.normalized) = 3

\* ---- the single-call inputs, in whole tenths ----
Tenth(x) == x \div 100
OC10 == [x |-> Tenth(px.origin.x) - Tenth(px.center.x),
         y |-> Tenth(px.origin.y) - Tenth(px.center.y),
         z |-> Tenth(px.origin.z) - Tenth(px.center.z)]
D10 == [x |-> Tenth(px.direction.x), y |-> Tenth(px.direction.y),
        z |-> Tenth(px.direction.z)]
Dot10(u, v) == u.x * v.x + u.y * v.y + u.z * v.z
R10 == Tenth(px.radius)

\* The ray origin is inside the sphere or on its surface.
OriginInOrOn == Dot10(OC10, OC10) <= R10 * R10

\* The closest approach of the ray (the points origin + s * direction, s >= 0)
\* to the sphere's centre exceeds the radius; exact integer arithmetic.
ClosestApproachExceedsRadius ==
  IF Dot10(OC10, D10) >= 0
  THEN Dot10(OC10, OC10) > R10 * R10
  ELSE Dot10(OC10, OC10) * Dot10(D10, D10) - Dot10(OC10, D10) * Dot10(OC10, D10)
         > R10 * R10 * Dot10(D10, D10)

\* The quadratic of section 4.3 for the call in px: a = d.d, b = 2 (o-c).d,
\* c = (o-c).(o-c) - r^2, its discriminant and its two roots.
QuadA == dot(CallRay(px).direction, CallRay(px).direction)
QuadB == Mul(2000, dot(minus(px.origin, px.center), CallRay(px).direction))
QuadC == Sub(dot(minus(px.origin, px.center), minus(px.origin, px.center)),
             Mul(px.radius, px.radius))
QuadDelta == Sub(Mul(QuadB, QuadB), Mul(Mul(4000, QuadA), QuadC))
Root1 == Div(Sub(Neg(QuadB), Sqrt(QuadDelta)), Mul(2000, QuadA))
Root2 == Div(Add(Neg(QuadB), Sqrt(QuadDelta)), Mul(2000, QuadA))
SmallerRoot == IF Root1 <= Root2 THEN Root1 ELSE Root2
LargerRoot == IF Root1 <= Root2 THEN Root2 ELSE Root1

\* The point origin + t * direction lies on the sphere, to within 0.005.
OnSphere(t) ==
  LET p == plus(px.origin, times(CallRay(px).direction, t))
      d == len(minus(p, px.center))
  IN px.radius - 5 <= d /\ d <= px.radius + 5

\* C3: Sphere::intersect reports a hit exactly when the discriminant is >= 0
\* and the smaller root is > 0, and the t it then reports is that smaller
\* root (0.5 for centre (0,0,-1), radius 0.5, origin (0,0,0), direction
\* (0,0,-1)); when the smaller root is <= 0 it reports no hit even if the
\* larger root is positive (origin inside the sphere or on its surface).
C3_NearestRootOnly ==
  px.stage = "intersected" =>
    /\ px.out.hit <=> (QuadDelta >= 0 /\ SmallerRoot > 0)
    /\ px.out.hit => (px.out.t = SmallerRoot /\ px.out.t > 0 /\ OnSphere(px.out.t))
    /\ (QuadDelta >= 0 /\ SmallerRoot <= 0) => ~px.out.hit
    /\ OriginInOrOn => ~px.out.hit
    /\ (/\ px.center = Vector3(0, 0, 0 - 1000) /\ px.radius = 500
        /\ px.origin = Vector3(0, 0, 0) /\ px.direction = Vector3(0, 0, 0 - 1000)) =>
         (px.out.hit /\ px.out.t = 500)

\* C3 witness: the origin is strictly inside the sphere, the larger root is
\* positive, and no hit is reported.
C3_Witness ==
  /\ px.stage = "intersected" /\ ~px.out.hit
  /\ Dot10(OC10, OC10) < R10 * R10
  /\ QuadDelta >= 0 /\ SmallerRoot < 0 /\ LargerRoot > 0

\* C4: for a ray whose closest approach to the sphere centre exceeds the
\* radius, intersect reports no hit and trace returns exactly the background
\* colour (0.1, 0.1, 0.1), whatever the light and the sphere's colour and
\* albedo.
C4_MissIsBackground ==
  /\ (px.stage = "intersected" /\ ClosestApproachExceedsRadius) => ~px.out.hit
  /\ (px.stage = "traced" /\ ClosestApproachExceedsRadius) =>
       px.result = Vector3(100, 100, 100)

\* C4 witness: a traced miss with a light, colour and albedo that are not
\* the default scene's.
C4_Witness ==
  /\ px.stage = "traced" /\ ClosestApproachExceedsRadius
  /\ px.light # light /\ px.color # sphere.color /\ px.albedo # sphere.albedo
  /\ px.result = Vector3(100, 100, 100)
====
